---- MODULE Spec2Model ----
(***************************************************************************)
(* Model of the bull_market_agent portfolio, backtest trade execution and  *)
(* market scan (src/src/modules/bull_market_agent).                        *)
(*                                                                         *)
(* Python floats are modelled as exact rational numbers, kept as a mixed   *)
(* fraction [i, n, d] = i + n/d with 0 <= n < d and gcd(n, d) = 1, so that *)
(* sums, differences and quotients are the mathematical ones.              *)
(* An optional value (Optional[X], a return value that may be absent) is a *)
(* sequence of length 0 or 1.                                              *)
(***************************************************************************)
EXTENDS Integers, Sequences, FiniteSets, TLC

VARIABLES
    portfolio,   \* the Portfolio object: [cash, positions]
    strategies,  \* BacktestEngine.strategies / BullMarketAnalyzer.strategies
    opened,      \* per symbol: sum of the quantities of the successful opens
    closed,      \* per symbol: sum of the quantities of the successful closes
    before,      \* the Portfolio as it was when the last call started
    call,        \* the last call on the portfolio: arguments and outcome
    nops,        \* number of calls made so far
    config,      \* BullMarketAnalyzer.config
    scan,        \* the last scan_market call: inputs and outcome
    trade_date,  \* the trade_date the engine's methods are called with (a day number)
    bought_on,   \* per symbol: the trade_date of the last _execute_trade buy, or -1
    backtest,    \* the run_backtest call: its BacktestResult and loop position
    cache,       \* legacy/strategy.py: _cache_store, the clock and the calls under way
    monitor,     \* BullMarketMonitorService: running, thread and the loop threads
    usecase      \* the execute_with_options calls under way on one analyzer

vars == <<portfolio, strategies, opened, closed, before, call, nops, config, scan,
          trade_date, bought_on, backtest, cache, monitor, usecase>>

-----------------------------------------------------------------------------
(* Exact arithmetic standing for Python float arithmetic *)

RECURSIVE GCD(_, _)
GCD(a, b) == IF b = 0 THEN a ELSE GCD(b, a % b)

\* n/d for integers n and d > 0
Frac(n, d) ==
    LET r == n % d
        g == GCD(d, r)
    IN  [i |-> n \div d, n |-> r \div g, d |-> d \div g]

Num(k) == [i |-> k, n |-> 0, d |-> 1]

\* the numerator of x written as one fraction over x.d
Imp(x) == x.i * x.d + x.n

Add(x, y) ==
    LET g == GCD(x.d, y.d)
        L == (x.d \div g) * y.d
        f == x.n * (L \div x.d) + y.n * (L \div y.d)
        r == f % L
        h == GCD(L, r)
    IN  [i |-> x.i + y.i + (f \div L), n |-> r \div h, d |-> L \div h]

Neg(x) ==
    IF x.n = 0 THEN Num(-x.i)
    ELSE [i |-> -x.i - 1, n |-> x.d - x.n, d |-> x.d]

Sub(x, y) == Add(x, Neg(y))

\* q * x for an integer q >= 0
Scale(q, x) ==
    LET m == q * x.n
        r == m % x.d
        g == GCD(x.d, r)
    IN  [i |-> q * x.i + (m \div x.d), n |-> r \div g, d |-> x.d \div g]

\* x / q for an integer q > 0
DivInt(x, q) ==
    LET m == (x.i % q) * x.d + x.n
        D == x.d * q
        g == GCD(D, m)
    IN  [i |-> x.i \div q, n |-> m \div g, d |-> D \div g]

Mul(x, y) == Frac(Imp(x) * Imp(y), x.d * y.d)

\* x / y for y > 0
Div(x, y) == Frac(Imp(x) * y.d, x.d * Imp(y))

Lt(x, y) == x.i < y.i \/ (x.i = y.i /\ x.n * y.d < y.n * x.d)
Leq(x, y) == ~Lt(y, x)

\* the largest integer <= x
Floor(x) == x.i

\* Python int(x): truncation toward zero
Trunc(x) == IF x.i < 0 /\ x.n > 0 THEN x.i + 1 ELSE x.i

-----------------------------------------------------------------------------
(* Program constants *)

DefaultCash == 100000

\* _execute_trade: `quantity < 100`
MinShares == 100

\* should_enter_position: `signal.price * 100`
EntryShares == 100

\* buy commission rate 0.0003
BuyCommissionRate == Frac(3, 10000)

-----------------------------------------------------------------------------
(* Bounds and the inputs the calls are drawn from *)

MaxOps == 3

Symbols == {"AAA", "BBB"}
Quantities == {50, 100}
Prices == {Num(10), Num(12), Num(2000)}
OpenCommissions == {Num(3)}
CloseCommissions == {Frac(24, 5)}

-----------------------------------------------------------------------------
(* domain/entities.py: Portfolio *)

\* Portfolio(): the dataclass defaults
NoPositions == [s \in {} |-> 0]
Portfolio == [cash |-> Num(DefaultCash), positions |-> NoPositions]

Held(pf, symbol) ==
    IF symbol \in DOMAIN pf.positions THEN pf.positions[symbol].quantity ELSE 0

\* add_position, `symbol in self.positions`: the entry after adding to it
merged_position_overwrite(existing, quantity, price, commission) ==
    LET total_cost == Add(Add(existing.total_cost, Scale(quantity, price)), commission)
    IN  [quantity |-> quantity,
         avg_cost |-> DivInt(total_cost, quantity),
         total_cost |-> total_cost]

merged_position(existing, quantity, price, commission) ==
    LET total_quantity == existing.quantity + quantity
        total_cost == Add(Add(existing.total_cost, Scale(quantity, price)), commission)
    IN  [quantity |-> total_quantity,
         avg_cost |-> DivInt(total_cost, total_quantity),
         total_cost |-> total_cost]

\* add_position, else branch: the entry of a symbol not held before
new_position(quantity, price, commission) ==
    [quantity |-> quantity,
     avg_cost |-> price,
     total_cost |-> Add(Scale(quantity, price), commission)]

\* the positions with the entry of `symbol` added or replaced
WithPosition(positions, symbol, entry) ==
    [s \in DOMAIN positions \cup {symbol} |->
        IF s = symbol THEN entry ELSE positions[s]]

WithoutPosition(positions, symbol) ==
    [s \in DOMAIN positions \ {symbol} |-> positions[s]]

add_position_debiting(pf, symbol, quantity, price, commission) ==
    LET paid == Sub(pf.cash, Add(Scale(quantity, price), commission))
    IN  IF symbol \in DOMAIN pf.positions
        THEN IF pf.positions[symbol].quantity + quantity = 0
             THEN [raised |-> <<"ZeroDivisionError">>, pf |-> pf]
             ELSE [raised |-> <<>>,
                   pf |-> [cash |-> paid,
                           positions |-> WithPosition(pf.positions, symbol,
                               merged_position(pf.positions[symbol], quantity, price, commission))]]
        ELSE [raised |-> <<>>,
              pf |-> [cash |-> paid,
                      positions |-> WithPosition(pf.positions, symbol,
                          new_position(quantity, price, commission))]]

\* Portfolio.add_position: the portfolio after the call, or the exception raised
add_position(pf, symbol, quantity, price, commission) ==
    IF symbol \in DOMAIN pf.positions
    THEN IF pf.positions[symbol].quantity + quantity = 0
         THEN [raised |-> <<"ZeroDivisionError">>, pf |-> pf]
         ELSE [raised |-> <<>>,
               pf |-> [pf EXCEPT !.positions = WithPosition(pf.positions, symbol,
                          merged_position(pf.positions[symbol], quantity, price, commission))]]
    ELSE [raised |-> <<>>,
          pf |-> [pf EXCEPT !.positions = WithPosition(pf.positions, symbol,
                     new_position(quantity, price, commission))]]

\* remove_position: sell_amount, cost_basis and profit_loss
realized_pnl_gross(position, quantity, price, commission) ==
    Sub(Scale(quantity, price), Scale(quantity, position.avg_cost))

realized_pnl(position, quantity, price, commission) ==
    LET sell_amount == Scale(quantity, price)
        cost_basis == Scale(quantity, position.avg_cost)
    IN  Sub(Sub(sell_amount, cost_basis), commission)

\* remove_position: the entry after selling `quantity` of it
reduced_position(position, quantity) ==
    [quantity |-> position.quantity - quantity,
     avg_cost |-> position.avg_cost,
     total_cost |-> Sub(position.total_cost, Scale(quantity, position.avg_cost))]

remove_position_unchecked(pf, symbol, quantity, price, commission) ==
    IF symbol \notin DOMAIN pf.positions
    THEN [raised |-> <<"ValueError">>, ret |-> <<>>, pf |-> pf]
    ELSE LET position == pf.positions[symbol]
             reduced == reduced_position(position, quantity)
         IN  [raised |-> <<>>,
              ret |-> <<realized_pnl(position, quantity, price, commission)>>,
              pf |-> [pf EXCEPT !.positions =
                         IF reduced.quantity = 0
                         THEN WithoutPosition(pf.positions, symbol)
                         ELSE WithPosition(pf.positions, symbol, reduced)]]

\* Portfolio.remove_position: the portfolio after the call, the value returned
\* (profit_loss) or the exception raised
remove_position(pf, symbol, quantity, price, commission) ==
    IF symbol \notin DOMAIN pf.positions
    THEN [raised |-> <<"ValueError">>, ret |-> <<>>, pf |-> pf]
    ELSE LET position == pf.positions[symbol]
             reduced == reduced_position(position, quantity)
         IN  IF quantity > position.quantity
             THEN [raised |-> <<"ValueError">>, ret |-> <<>>, pf |-> pf]
             ELSE [raised |-> <<>>,
                   ret |-> <<realized_pnl(position, quantity, price, commission)>>,
                   pf |-> [pf EXCEPT !.positions =
                              IF reduced.quantity = 0
                              THEN WithoutPosition(pf.positions, symbol)
                              ELSE WithPosition(pf.positions, symbol, reduced)]]

-----------------------------------------------------------------------------
(* strategies.py: should_enter_position of each strategy *)

\* StrategyFactory.create_all_strategies
create_all_strategies == <<"t_plus_one", "momentum", "volume", "sentiment">>

StrategyLists == {create_all_strategies, <<"t_plus_one", "momentum">>}

TPlusOne_should_enter_position(signal, pf) ==
    IF signal.action # "BUY" THEN FALSE
    ELSE IF Lt(Mul(pf.cash, signal.position_size_pct), Scale(EntryShares, signal.price)) THEN FALSE
    ELSE IF signal.symbol \in DOMAIN pf.positions THEN FALSE
    ELSE TRUE

Momentum_should_enter_position(signal, pf) ==
    /\ signal.action = "BUY"
    /\ Leq(Scale(EntryShares, signal.price), pf.cash)
    /\ signal.symbol \notin DOMAIN pf.positions

Volume_should_enter_position(signal, pf) ==
    /\ Leq(Scale(EntryShares, signal.price), pf.cash)
    /\ signal.symbol \notin DOMAIN pf.positions

Sentiment_should_enter_position(signal, pf) ==
    /\ Leq(Scale(EntryShares, signal.price), pf.cash)
    /\ signal.symbol \notin DOMAIN pf.positions

should_enter_position(strategy, signal, pf) ==
    CASE strategy = "t_plus_one" -> TPlusOne_should_enter_position(signal, pf)
      [] strategy = "momentum" -> Momentum_should_enter_position(signal, pf)
      [] strategy = "volume" -> Volume_should_enter_position(signal, pf)
      [] strategy = "sentiment" -> Sentiment_should_enter_position(signal, pf)

-----------------------------------------------------------------------------
(* backtesting.py: BacktestEngine._execute_trade *)

\* `int((portfolio.cash * signal.position_size_pct) / signal.price)`
order_quantity(pf, signal) ==
    Trunc(Div(Mul(pf.cash, signal.position_size_pct), signal.price))

\* the TradeRecord of a buy
buy_record(signal, quantity, commission) ==
    [symbol |-> signal.symbol,
     action |-> signal.action,
     quantity |-> quantity,
     price |-> signal.price,
     amount |-> Scale(quantity, signal.price),
     commission |-> commission,
     confidence |-> signal.confidence,
     profit_loss |-> Num(0),
     hold_days |-> 1]

_execute_trade_any_quantity(pf, signal, strats) ==
    LET entering == {k \in 1..Len(strats) : should_enter_position(strats[k], signal, pf)}
        quantity == order_quantity(pf, signal)
        commission == Mul(Scale(quantity, signal.price), BuyCommissionRate)
        added == add_position(pf, signal.symbol, quantity, signal.price, commission)
    IN  IF entering = {}
        THEN [pf |-> pf, trade |-> <<>>, entered |-> FALSE]
        ELSE IF quantity <= 0
        THEN [pf |-> pf, trade |-> <<>>, entered |-> TRUE]
        ELSE IF added.raised # <<>>
        THEN [pf |-> added.pf, trade |-> <<>>, entered |-> TRUE]
        ELSE [pf |-> added.pf,
              trade |-> <<buy_record(signal, quantity, commission)>>,
              entered |-> TRUE]

\* the portfolio after the call and the TradeRecord returned (none: None);
\* entered: some strategy's should_enter_position accepted the signal
_execute_trade(pf, signal, strats) ==
    LET entering == {k \in 1..Len(strats) : should_enter_position(strats[k], signal, pf)}
        quantity == order_quantity(pf, signal)
        commission == Mul(Scale(quantity, signal.price), BuyCommissionRate)
        added == add_position(pf, signal.symbol, quantity, signal.price, commission)
    IN  IF entering = {}
        THEN [pf |-> pf, trade |-> <<>>, entered |-> FALSE]
        ELSE IF quantity < MinShares
        THEN [pf |-> pf, trade |-> <<>>, entered |-> TRUE]
        ELSE IF added.raised # <<>>
        THEN [pf |-> added.pf, trade |-> <<>>, entered |-> TRUE]
        ELSE [pf |-> added.pf,
              trade |-> <<buy_record(signal, quantity, commission)>>,
              entered |-> TRUE]

\* the signals handed to _execute_trade
TradeSignals ==
    [symbol : Symbols,
     action : {"BUY", "SELL"},
     confidence : {Num(82)},
     price : {Num(80), Num(100)},
     position_size_pct : {Frac(41, 500), Frac(1, 10)}]

-----------------------------------------------------------------------------
(* strategies.py: should_exit_position; backtesting.py: _check_exit_conditions *)

\* `(current_price / cost_price - 1) * 100`, for cost_price > 0
profit_pct(position, current_price) ==
    Scale(100, Sub(Div(current_price, position.avg_cost), Num(1)))

\* `profit_pct >= take_profit or profit_pct <= -stop_loss`
beyond(pct, take_profit, stop_loss) ==
    Leq(Num(take_profit), pct) \/ Leq(pct, Num(-stop_loss))

TPlusOne_should_exit_position(symbol, pf, current_price) ==
    /\ symbol \in DOMAIN pf.positions
    /\ beyond(profit_pct(pf.positions[symbol], current_price), 8, 5)

Momentum_should_exit_position(symbol, pf, current_price) ==
    /\ symbol \in DOMAIN pf.positions
    /\ beyond(profit_pct(pf.positions[symbol], current_price), 12, 8)

Volume_should_exit_position(symbol, pf, current_price) ==
    /\ symbol \in DOMAIN pf.positions
    /\ beyond(profit_pct(pf.positions[symbol], current_price), 15, 10)

\* `random.random() < 0.1`: the draw is `triggered`
Sentiment_should_exit_position(symbol, pf, triggered) ==
    /\ symbol \in DOMAIN pf.positions
    /\ triggered

\* TRUE: SignalAction.SELL; FALSE: None
should_exit_position(strategy, symbol, pf, current_price, triggered) ==
    CASE strategy = "t_plus_one" -> TPlusOne_should_exit_position(symbol, pf, current_price)
      [] strategy = "momentum" -> Momentum_should_exit_position(symbol, pf, current_price)
      [] strategy = "volume" -> Volume_should_exit_position(symbol, pf, current_price)
      [] strategy = "sentiment" -> Sentiment_should_exit_position(symbol, pf, triggered)

\* commission plus stamp duty of a sale
SellCommissionRate == Add(Frac(3, 10000), Frac(1, 1000))

\* the TradeRecord of an exit
sell_record(symbol, position, current_price, commission) ==
    [symbol |-> symbol,
     action |-> "SELL",
     quantity |-> position.quantity,
     price |-> current_price,
     amount |-> Scale(position.quantity, current_price),
     commission |-> commission,
     confidence |-> Num(80),
     profit_loss |-> Sub(Sub(Scale(position.quantity, current_price), commission),
                         position.total_cost)]

\* _execute_exit_trade: the whole position is removed and its record
\* appended to result.trade_records; `result.executed_trades += 1` then
\* raises FrozenInstanceError, which the method catches
sold(pf, symbol, current_price, commission) ==
    [pf |-> remove_position(pf, symbol, pf.positions[symbol].quantity, current_price,
                            commission).pf,
     record |-> sell_record(symbol, pf.positions[symbol], current_price, commission)]

_execute_exit_trade(pf, symbol, current_price) ==
    sold(pf, symbol, current_price,
         Mul(Scale(pf.positions[symbol].quantity, current_price), SellCommissionRate))

\* `avg_cost * (1 + random.uniform(-0.05, 0.05))`: the draw is `move`
simulated_price(position, move) == Mul(position.avg_cost, Add(Num(1), move))

\* whether some strategy of the list returns an exit action for the symbol
exit_wanted(strats, symbol, pf, current_price, triggered) ==
    \E k \in 1..Len(strats) :
        should_exit_position(strats[k], symbol, pf, current_price, triggered)

\* the loop of _check_exit_conditions over the symbols still to look at
RECURSIVE exit_loop(_, _, _, _)
exit_step(state, symbol, strats, draw) ==
    IF exit_wanted(strats, symbol, state.pf,
                   simulated_price(state.pf.positions[symbol], draw.move),
                   draw.triggered)
    THEN [pf |-> _execute_exit_trade(state.pf, symbol,
                    simulated_price(state.pf.positions[symbol], draw.move)).pf,
          exits |-> state.exits \cup
                    {_execute_exit_trade(state.pf, symbol,
                        simulated_price(state.pf.positions[symbol], draw.move)).record}]
    ELSE state

exit_loop(state, symbols, strats, draws) ==
    IF symbols = {} THEN state
    ELSE exit_loop(exit_step(state, CHOOSE s \in symbols : TRUE, strats,
                             draws[CHOOSE s \in symbols : TRUE]),
                   symbols \ {CHOOSE s \in symbols : TRUE}, strats, draws)

\* _check_exit_conditions: the portfolio afterwards and the records appended
\* to result.trade_records
_check_exit_conditions(pf, strats, draws) ==
    exit_loop([pf |-> pf, exits |-> {}], DOMAIN pf.positions, strats, draws)

\* the draws of one _check_exit_conditions call, per symbol
PriceMoves == {Frac(-1, 20), Num(0)}
ExitDraws == [Symbols -> [move : PriceMoves, triggered : BOOLEAN]]

-----------------------------------------------------------------------------
(* domain/value_objects.py: AnalysisConfig *)

\* AnalysisConfig(): the dataclass defaults
DefaultAnalysisConfig ==
    [sectors |-> <<"BK0917">>,
     confidence_threshold |-> Num(80),
     max_position_size |-> Frac(1, 10)]

\* the constructor without the threshold check
AnalysisConfig_any_threshold(sectors, confidence_threshold, max_position_size) ==
    IF ~(Lt(Num(0), max_position_size) /\ Leq(max_position_size, Num(1)))
    THEN [raised |-> <<"ValueError">>, config |-> <<>>]
    ELSE [raised |-> <<>>,
          config |-> <<[sectors |-> sectors,
                        confidence_threshold |-> confidence_threshold,
                        max_position_size |-> max_position_size]>>]

\* AnalysisConfig(sectors=..., confidence_threshold=..., max_position_size=...):
\* __post_init__ raises ValueError or the object exists
AnalysisConfig(sectors, confidence_threshold, max_position_size) ==
    IF ~(Lt(Num(0), confidence_threshold) /\ Leq(confidence_threshold, Num(100)))
    THEN [raised |-> <<"ValueError">>, config |-> <<>>]
    ELSE IF ~(Lt(Num(0), max_position_size) /\ Leq(max_position_size, Num(1)))
    THEN [raised |-> <<"ValueError">>, config |-> <<>>]
    ELSE [raised |-> <<>>,
          config |-> <<[sectors |-> sectors,
                        confidence_threshold |-> confidence_threshold,
                        max_position_size |-> max_position_size]>>]

\* AnalysisConfig.with_updated_threshold
with_updated_threshold(cfg, threshold) ==
    AnalysisConfig(cfg.sectors, threshold, cfg.max_position_size)

NoScan ==
    [done |-> FALSE, provider |-> [configured |-> FALSE, responses |-> <<>>],
     notifier |-> "absent", raised |-> <<>>, returned |-> <<>>, notified |-> <<>>]

-----------------------------------------------------------------------------
(* domain/entities.py: TradingSignal; strategies.py: analyze_market_data *)

\* A call's outcome is [raised, signal]: the exception raised, or the signal
\* returned (none: None).
Nothing == [raised |-> <<>>, signal |-> <<>>]
Raised(e) == [raised |-> <<e>>, signal |-> <<>>]

\* TradingSignal(...): __post_init__ validates confidence and price
TradingSignal(symbol, sector, action, confidence, price, position_size_pct) ==
    IF ~(Leq(Num(0), confidence) /\ Leq(confidence, Num(100)))
    THEN Raised("ValueError")
    ELSE IF Leq(price, Num(0))
    THEN Raised("ValueError")
    ELSE [raised |-> <<>>,
          signal |-> <<[symbol |-> symbol, sector |-> sector, action |-> action,
                        confidence |-> confidence, price |-> price,
                        position_size_pct |-> position_size_pct]>>]

\* BaseStrategy._calculate_position_size
_calculate_position_size(signal, cfg) ==
    Mul(cfg.max_position_size, Div(signal.confidence, Num(100)))

\* minutes since midnight of the clock time h:m
HM(h, m) == h * 60 + m

time_slots ==
    <<[name |-> "early_morning", start |-> HM(9, 15), end |-> HM(9, 30)],
      [name |-> "morning_session", start |-> HM(9, 30), end |-> HM(11, 30)],
      [name |-> "afternoon_session", start |-> HM(13, 0), end |-> HM(14, 30)],
      [name |-> "late_afternoon", start |-> HM(14, 30), end |-> HM(15, 0)]>>

\* BaseStrategy._get_time_slot: the first slot, in dict order, holding the time
_get_time_slot(current_t) ==
    LET hits == {k \in 1..Len(time_slots) :
                    time_slots[k].start <= current_t /\ current_t <= time_slots[k].end}
    IN  IF hits = {} THEN "non_trading"
        ELSE time_slots[CHOOSE k \in hits : \A j \in hits : k <= j].name

\* market_data.additional_data.get('avg_volume', default)
avg_volume(market_data, default) ==
    IF market_data.avg_volume = <<>> THEN default ELSE market_data.avg_volume[1]

\* `market_data.volume > avg_volume * factor`
volume_exceeds(market_data, factor) ==
    Lt(Scale(avg_volume(market_data, 0), factor), Num(market_data.volume))

\* the signal a strategy builds: the keyword arguments are evaluated in
\* order, the volume ratio of detailed_reasons (when `divides`) before
\* position_size_pct, whose argument is TradingSignal("", "", "", action,
\* confidence, 0, ...)
sized_signal(inner, market_data, action, confidence, factor, cfg) ==
    IF inner.raised # <<>>
    THEN Raised(inner.raised[1])
    ELSE TradingSignal(market_data.symbol, market_data.sector, action, confidence,
                       market_data.price,
                       Mul(_calculate_position_size(inner.signal[1], cfg), factor))

build_signal(market_data, action, confidence, factor, divides, cfg) ==
    IF divides /\ avg_volume(market_data, 1) = 0
    THEN Raised("ZeroDivisionError")
    ELSE sized_signal(TradingSignal("", "", action, confidence, Num(0), Num(0)),
                      market_data, action, confidence, factor, cfg)

\* the pre-open branch entering instead of exiting
_early_morning_strategy_buying(market_data, cfg) ==
    IF Lt(market_data.change_pct, Num(-2))
    THEN TradingSignal(market_data.symbol, market_data.sector, "BUY", Num(85),
                       market_data.price, Num(0))
    ELSE Nothing

_early_morning_strategy(market_data, cfg) ==
    IF Lt(market_data.change_pct, Num(-2))
    THEN TradingSignal(market_data.symbol, market_data.sector, "SELL", Num(85),
                       market_data.price, Num(0))
    ELSE Nothing

_intraday_trading_strategy(market_data, cfg) ==
    IF Lt(Num(3), market_data.change_pct) /\ volume_exceeds(market_data, Frac(3, 2))
    THEN build_signal(market_data, "HOLD", Num(75), Num(1), TRUE, cfg)
    ELSE Nothing

_late_afternoon_strategy(market_data, cfg) ==
    IF Lt(market_data.change_pct, Num(-2))
    THEN build_signal(market_data, "BUY", Num(82), Num(1), FALSE, cfg)
    ELSE Nothing

TPlusOne_analyze_market_data(market_data, cfg) ==
    LET time_slot == _get_time_slot(market_data.now)
    IN  IF time_slot = "non_trading" THEN Nothing
        ELSE IF time_slot = "early_morning"
        THEN _early_morning_strategy(market_data, cfg)
        ELSE IF time_slot \in {"morning_session", "afternoon_session"}
        THEN _intraday_trading_strategy(market_data, cfg)
        ELSE IF time_slot = "late_afternoon"
        THEN _late_afternoon_strategy(market_data, cfg)
        ELSE Nothing

Min(x, y) == IF Lt(y, x) THEN y ELSE x

Momentum_analyze_market_data(market_data, cfg) ==
    IF Lt(Num(5), market_data.change_pct) /\ volume_exceeds(market_data, Num(2))
    THEN build_signal(market_data, "BUY", Min(Num(95), market_data.change_pct),
                      Frac(4, 5), TRUE, cfg)
    ELSE Nothing

Volume_analyze_market_data(market_data, cfg) ==
    IF avg_volume(market_data, 1) = 0
    THEN Raised("ZeroDivisionError")
    ELSE LET volume_ratio == Frac(market_data.volume, avg_volume(market_data, 1))
             action == IF Lt(Num(0), market_data.change_pct) THEN "BUY" ELSE "SELL"
         IN  IF Lt(Num(3), volume_ratio)
             THEN build_signal(market_data, action, Min(Num(90), Scale(10, volume_ratio)),
                               Frac(7, 10), FALSE, cfg)
             ELSE Nothing

\* sentiment_score = random.uniform(0, 100): the draw comes with the data
Sentiment_analyze_market_data(market_data, cfg) ==
    IF Lt(Num(80), market_data.sentiment_score) /\ Lt(Num(1), market_data.change_pct)
    THEN build_signal(market_data, "BUY", Mul(market_data.sentiment_score, Frac(9, 10)),
                      Num(1), FALSE, cfg)
    ELSE Nothing

analyze_market_data(strategy, market_data, cfg) ==
    CASE strategy = "t_plus_one" -> TPlusOne_analyze_market_data(market_data, cfg)
      [] strategy = "momentum" -> Momentum_analyze_market_data(market_data, cfg)
      [] strategy = "volume" -> Volume_analyze_market_data(market_data, cfg)
      [] strategy = "sentiment" -> Sentiment_analyze_market_data(market_data, cfg)

-----------------------------------------------------------------------------
(* domain/services/bull_market_analyzer.py: BullMarketAnalyzer *)

\* the later strategies' answer taking precedence
last_signal(got, later) ==
    IF later.raised # <<>> \/ later.signal # <<>> THEN later ELSE got

\* analyze_single_stock, one turn of its loop: `if signal: return signal`
\* (an exception leaves the loop too), else the later strategies
first_signal(got, later) ==
    IF got.raised # <<>> \/ got.signal # <<>> THEN got ELSE later

\* analyze_single_stock from the k-th strategy on: the first signal
RECURSIVE try_strategies(_, _, _, _)
try_strategies(strats, k, market_data, cfg) ==
    IF k > Len(strats) THEN Nothing
    ELSE first_signal(analyze_market_data(strats[k], market_data, cfg),
                      try_strategies(strats, k + 1, market_data, cfg))

analyze_single_stock(strats, market_data, cfg) ==
    try_strategies(strats, 1, market_data, cfg)

\* scan_market, one turn of the loop over a sector's stocks: `if signal:
\* signals.append(signal)`; an exception ends the sector
appended_signal(got, later) ==
    IF got.raised # <<>> THEN <<>> ELSE got.signal \o later

\* scan_market, the loop over one sector's stocks from the k-th on: the
\* signals appended until a stock's analysis raises
RECURSIVE sector_signals(_, _, _, _)
sector_signals(strats, sector_data, k, cfg) ==
    IF k > Len(sector_data) THEN <<>>
    ELSE appended_signal(analyze_single_stock(strats, sector_data[k], cfg),
                         sector_signals(strats, sector_data, k + 1, cfg))

\* scan_market, the loop over config.sectors from the k-th on
RECURSIVE all_signals(_, _, _, _)
all_signals(strats, responses, k, cfg) ==
    IF k > Len(cfg.sectors) THEN <<>>
    ELSE (IF responses[k].raised THEN <<>>
          ELSE sector_signals(strats, responses[k].stocks, 1, cfg))
         \o all_signals(strats, responses, k + 1, cfg)

\* scan_market: `s.confidence >= self.config.confidence_threshold`
unfiltered_signals(signals, cfg) == signals

filtered_signals(signals, cfg) ==
    SelectSeq(signals, LAMBDA sig : Leq(cfg.confidence_threshold, sig.confidence))

\* scan_market: `if self.notifier: for signal in filtered_signals:
\* self.notifier.notify_signal(signal)`, then `return filtered_signals`
notify_signals(kept, notifier) ==
    IF notifier = "absent"
    THEN [raised |-> <<>>, returned |-> kept, notified |-> <<>>]
    ELSE IF notifier = "raises" /\ kept # <<>>
    THEN [raised |-> <<"NotifierError">>, returned |-> <<>>, notified |-> <<kept[1]>>]
    ELSE [raised |-> <<>>, returned |-> kept, notified |-> kept]

\* BullMarketAnalyzer.scan_market: the list returned (or the exception
\* raised) and the signals handed to notifier.notify_signal.
\* provider: [configured, responses], responses[k] what get_sector_stocks
\* gives for the k-th sector; notifier: "absent", "ok" or "raises"
scan_market(cfg, strats, provider, notifier) ==
    IF ~provider.configured
    THEN [raised |-> <<>>, returned |-> <<>>, notified |-> <<>>]
    ELSE notify_signals(
             filtered_signals(all_signals(strats, provider.responses, 1, cfg), cfg),
             notifier)

-----------------------------------------------------------------------------
(* The calls on one Portfolio *)

NoCall ==
    [op |-> "none", symbol |-> "", quantity |-> 0, price |-> Num(0),
     commission |-> Num(0), signal |-> <<>>, raised |-> <<>>, ret |-> <<>>,
     trade |-> <<>>, entered |-> FALSE, data |-> <<>>, got |-> <<>>, exits |-> {}]

\* no run_backtest call yet. pc: "idle", "flow" (in the loop of
\* _execute_backtest_flow) or "done"; result: the BacktestResult, once built;
\* processed: the dates given to _process_trading_day so far
NoBacktest ==
    [pc |-> "idle", current_date |-> 0, processed |-> <<>>, result |-> <<>>,
     raised |-> <<>>, returned |-> <<>>, saved |-> FALSE]

\* the requests that go through cached_api_call: the constituent stocks of a
\* sector and the history of a stock code
Requests ==
    [kind : {"sector_stocks"}, param : {"BK0917", "BK0480"}] \cup
    [kind : {"stock_hist"}, param : {"688261", "300487"}]

\* the decorator's argument: @cached_api_call("sector_stocks_{}", ttl=300) and
\* @cached_api_call("stock_hist_{}", ttl=1800); wrapper uses cache_key as it is
cache_key(request) ==
    IF request.kind = "sector_stocks" THEN "sector_stocks_{}" ELSE "stock_hist_{}"

ttl(request) == IF request.kind = "sector_stocks" THEN 300 ELSE 1800

CacheKeys == {cache_key(request) : request \in Requests}

\* the worker threads of the ThreadPoolExecutor that call the cached methods
Workers == {1, 2}

\* _cache_store = {} and no call under way. pc of a worker: "idle", "check"
\* (before the first `with _cache_lock`), "miss" (past it, no fresh entry),
\* "fetched" (func returned), "returned"
NoCache ==
    [store |-> [k \in CacheKeys |-> <<>>], now |-> 0,
     pc |-> [t \in Workers |-> "idle"], request |-> [t \in Workers |-> <<>>],
     result |-> [t \in Workers |-> <<>>], returned |-> [t \in Workers |-> <<>>],
     hit |-> [t \in Workers |-> FALSE]]

MaxThreads == 3

\* the threads start_monitoring can create, in the order of their creation
LoopIds == 1..MaxThreads

\* BullMarketMonitorService.__init__: running = False, thread = None (0).
\* A loop thread is "unborn", at the `while self.running` test ("test"), in
\* the body of the loop ("body"), in time.sleep ("sleep") or has left
\* _monitor_loop ("ended"); last_scan_by: the thread of the last _execute_scan
NoMonitor ==
    [running |-> FALSE, thread |-> 0, loops |-> [t \in LoopIds |-> "unborn"],
     last_scan_by |-> 0]

\* the threads that call ScanMarketUseCase.execute_with_options
Callers == {1, 2}

\* the config the analyzer was built with; made_by tells the objects apart:
\* 0 for this one, t for the temp_config of caller t
OriginalConfig ==
    [made_by |-> 0, sectors |-> DefaultAnalysisConfig.sectors,
     confidence_threshold |-> DefaultAnalysisConfig.confidence_threshold,
     max_position_size |-> DefaultAnalysisConfig.max_position_size]

\* no execute_with_options call yet. pc of a caller: "idle", "try" (has read
\* original_config), "execute" (before self.execute()), "finally", "returned"
NoUseCase ==
    [config |-> OriginalConfig, pc |-> [t \in Callers |-> "idle"],
     sectors |-> [t \in Callers |-> <<>>], threshold |-> [t \in Callers |-> <<>>],
     original_config |-> [t \in Callers |-> <<>>],
     scanned_with |-> [t \in Callers |-> <<>>], raised |-> [t \in Callers |-> <<>>]]

Init ==
    /\ portfolio = Portfolio
    /\ strategies \in StrategyLists
    /\ opened = [s \in Symbols |-> 0]
    /\ closed = [s \in Symbols |-> 0]
    /\ before = Portfolio
    /\ call = NoCall
    /\ nops = 0
    /\ config = DefaultAnalysisConfig
    /\ scan = NoScan
    /\ trade_date = 0
    /\ bought_on = [s \in Symbols |-> -1]
    /\ backtest = NoBacktest
    /\ cache = NoCache
    /\ monitor = NoMonitor
    /\ usecase = NoUseCase

AddPosition(symbol, quantity, price, commission) ==
    LET r == add_position(portfolio, symbol, quantity, price, commission)
    IN  /\ nops < MaxOps
        /\ nops' = nops + 1
        /\ before' = portfolio
        /\ portfolio' = r.pf
        /\ call' = [NoCall EXCEPT !.op = "add_position", !.symbol = symbol,
                       !.quantity = quantity, !.price = price,
                       !.commission = commission, !.raised = r.raised]
        /\ opened' = IF r.raised = <<>>
                     THEN [opened EXCEPT ![symbol] = @ + quantity] ELSE opened
        /\ UNCHANGED <<strategies, closed, config, scan, trade_date, bought_on, backtest,
                       cache, monitor, usecase>>

RemovePosition(symbol, quantity, price, commission) ==
    LET r == remove_position(portfolio, symbol, quantity, price, commission)
    IN  /\ nops < MaxOps
        /\ nops' = nops + 1
        /\ before' = portfolio
        /\ portfolio' = r.pf
        /\ call' = [NoCall EXCEPT !.op = "remove_position", !.symbol = symbol,
                       !.quantity = quantity, !.price = price,
                       !.commission = commission, !.raised = r.raised,
                       !.ret = r.ret]
        /\ closed' = IF r.raised = <<>>
                     THEN [closed EXCEPT ![symbol] = @ + quantity] ELSE closed
        /\ UNCHANGED <<strategies, opened, config, scan, trade_date, bought_on, backtest,
                       cache, monitor, usecase>>

ExecuteTrade(signal) ==
    LET r == _execute_trade(portfolio, signal, strategies)
    IN  /\ nops < MaxOps
        /\ nops' = nops + 1
        /\ before' = portfolio
        /\ portfolio' = r.pf
        /\ call' = [NoCall EXCEPT !.op = "_execute_trade", !.symbol = signal.symbol,
                       !.price = signal.price, !.signal = <<signal>>,
                       !.trade = r.trade, !.entered = r.entered]
        /\ opened' = IF r.trade # <<>>
                     THEN [opened EXCEPT ![signal.symbol] = @ + r.trade[1].quantity]
                     ELSE opened
        /\ bought_on' = IF r.trade # <<>>
                        THEN [bought_on EXCEPT ![signal.symbol] = trade_date]
                        ELSE bought_on
        /\ UNCHANGED <<strategies, closed, config, scan, trade_date, backtest,
                       cache, monitor, usecase>>

Next ==
    \/ \E s \in Symbols, q \in Quantities, p \in Prices, c \in OpenCommissions :
          AddPosition(s, q, p, c)
    \/ \E s \in Symbols, q \in Quantities, p \in Prices, c \in CloseCommissions :
          RemovePosition(s, q, p, c)
    \/ \E signal \in TradeSignals : ExecuteTrade(signal)

Spec == Init /\ [][Next]_vars

-----------------------------------------------------------------------------
(* The engine's trade and exit steps, called day by day *)

MaxDate == 1

\* the quantities the exits took out of the portfolio, per symbol
exit_quantity(exits, symbol) ==
    IF \E r \in exits : r.symbol = symbol
    THEN (CHOOSE r \in exits : r.symbol = symbol).quantity
    ELSE 0

Exited(pf, r) ==
    /\ portfolio' = r.pf
    /\ call' = [NoCall EXCEPT !.op = "_check_exit_conditions", !.exits = r.exits]
    /\ closed' = [s \in Symbols |-> closed[s] + exit_quantity(r.exits, s)]

\* _check_exit_conditions(portfolio, trade_date, result), as _process_trading_day
\* calls it after the day's _execute_trade calls
CheckExitConditions(draws) ==
    /\ nops < MaxOps
    /\ nops' = nops + 1
    /\ before' = portfolio
    /\ Exited(portfolio, _check_exit_conditions(portfolio, strategies, draws))
    /\ UNCHANGED <<strategies, opened, config, scan, trade_date, bought_on, backtest,
                   cache, monitor, usecase>>

\* `current_date += timedelta(days=1)`: the next calls are for the next day
NextTradeDate ==
    /\ trade_date < MaxDate
    /\ trade_date' = trade_date + 1
    /\ UNCHANGED <<portfolio, strategies, opened, closed, before, call, nops, config,
                   scan, bought_on, backtest,
                   cache, monitor, usecase>>

EngineNext ==
    \/ \E signal \in TradeSignals : ExecuteTrade(signal)
    \/ \E draws \in ExitDraws : CheckExitConditions(draws)
    \/ NextTradeDate

EngineSpec == Init /\ [][EngineNext]_vars

-----------------------------------------------------------------------------
(* backtesting.py: BacktestEngine.run_backtest *)

\* Dates are day numbers; day 0 is a Monday.
weekday(date) == date % 7

_is_trading_day(date) == weekday(date) < 5

\* `max(1, delta.days)`
_calculate_trading_days(start_date, end_date) ==
    IF end_date - start_date > 1 THEN end_date - start_date ELSE 1

\* BacktestResult(config=..., start_date=..., end_date=..., trading_days=...,
\* total_signals=0, executed_trades=0): the other fields take their defaults
BacktestResult(cfg, start_date, end_date) ==
    [config |-> cfg, start_date |-> start_date, end_date |-> end_date,
     trading_days |-> _calculate_trading_days(start_date, end_date),
     total_signals |-> 0, executed_trades |-> 0,
     trade_records |-> <<>>, daily_results |-> <<>>,
     performance_analysis |-> "empty", risk_metrics |-> "default",
     final_portfolio_value |-> Num(DefaultCash)]

\* _get_historical_sector_data: prints that no data is available, returns []
_get_historical_sector_data(sector, date) == <<>>

\* _generate_signals, the loop over config.sectors from the k-th on
RECURSIVE _generate_signals(_, _, _, _)
_generate_signals(cfg, strats, date, k) ==
    IF k > Len(cfg.sectors) THEN <<>>
    ELSE (IF _get_historical_sector_data(cfg.sectors[k], date) = <<>>
          THEN <<>>
          ELSE sector_signals(strats,
                              _get_historical_sector_data(cfg.sectors[k], date),
                              1, cfg))
         \o _generate_signals(cfg, strats, date, k + 1)

\* _process_trading_day, one turn of the loop over the day's signals
traded(state, r) ==
    [pf |-> r.pf,
     executed_count |-> state.executed_count + (IF r.trade # <<>> THEN 1 ELSE 0)]

RECURSIVE execute_trades(_, _, _, _)
execute_trades(state, signals, k, strats) ==
    IF k > Len(signals) THEN state
    ELSE execute_trades(traded(state, _execute_trade(state.pf, signals[k], strats)),
                        signals, k + 1, strats)

\* the records of the exits in the order they were appended
RECURSIVE records_of(_)
records_of(exits) ==
    IF exits = {} THEN <<>>
    ELSE <<CHOOSE r \in exits : TRUE>> \o records_of(exits \ {CHOOSE r \in exits : TRUE})

\* _process_trading_day: the dict it returns; 'signals_count' and
\* 'trades_executed' are never assigned after their initial values
daily_result(date, pf, checked) ==
    [pf |-> checked.pf,
     records |-> records_of(checked.exits),
     daily_result |-> [date |-> date, signals_count |-> 0,
                       trades_executed |-> <<>>,
                       capital_before |-> pf.cash,
                       capital_after |-> checked.pf.cash,
                       positions_count |-> Cardinality(DOMAIN checked.pf.positions)]]

_process_trading_day(date, pf, cfg, strats, draws) ==
    daily_result(date, pf,
        _check_exit_conditions(
            execute_trades([pf |-> pf, executed_count |-> 0],
                           _generate_signals(cfg, strats, date, 1), 1, strats).pf,
            strats, draws))

\* _analyze_performance: reads result.daily_results and result.trade_records,
\* then evaluates result.final_portfolio.cash
_analyze_performance(result) ==
    IF "final_portfolio" \notin DOMAIN result
    THEN [raised |-> <<"AttributeError">>, result |-> result]
    ELSE [raised |-> <<>>,
          result |-> [result EXCEPT !.performance_analysis = "analysed",
                                    !.risk_metrics = "calculated"]]

-----------------------------------------------------------------------------
(* The run of one backtest *)

MaxSpan == 5

\* run_backtest(start_date, end_date) up to the loop of _execute_backtest_flow
RunBacktest(start_date, end_date) ==
    /\ backtest.pc = "idle"
    /\ backtest' = [NoBacktest EXCEPT !.pc = "flow", !.current_date = start_date,
                        !.result = <<BacktestResult(config, start_date, end_date)>>]
    /\ portfolio' = Portfolio
    /\ UNCHANGED <<strategies, opened, closed, before, call, nops, config, scan,
                   trade_date, bought_on,
                   cache, monitor, usecase>>

Processed(day) ==
    /\ portfolio' = day.pf
    /\ backtest' = [backtest EXCEPT
                        !.current_date = @ + 1,
                        !.processed = Append(@, backtest.current_date),
                        !.result = <<[backtest.result[1] EXCEPT
                                         !.trade_records = @ \o day.records]>>]

\* one turn of the loop on a trading day: the dict _process_trading_day
\* returns is logged and dropped
ProcessTradingDay(draws) ==
    /\ backtest.pc = "flow"
    /\ backtest.current_date <= backtest.result[1].end_date
    /\ _is_trading_day(backtest.current_date)
    /\ Processed(_process_trading_day(backtest.current_date, portfolio, config,
                                      strategies, draws))
    /\ UNCHANGED <<strategies, opened, closed, before, call, nops, config, scan,
                   trade_date, bought_on,
                   cache, monitor, usecase>>

\* one turn of the loop on a day that is not a trading day
SkipDay ==
    /\ backtest.pc = "flow"
    /\ backtest.current_date <= backtest.result[1].end_date
    /\ ~_is_trading_day(backtest.current_date)
    /\ backtest' = [backtest EXCEPT !.current_date = @ + 1]
    /\ UNCHANGED <<portfolio, strategies, opened, closed, before, call, nops, config,
                   scan, trade_date, bought_on,
                   cache, monitor, usecase>>

Finished(analysed) ==
    backtest' = [backtest EXCEPT
                    !.pc = "done",
                    !.result = <<analysed.result>>,
                    !.raised = analysed.raised,
                    !.saved = (analysed.raised = <<>>),
                    !.returned = IF analysed.raised = <<>> THEN <<analysed.result>>
                                 ELSE <<>>]

\* the loop has ended: _analyze_performance, save_backtest_result, return
FinishBacktest ==
    /\ backtest.pc = "flow"
    /\ backtest.current_date > backtest.result[1].end_date
    /\ Finished(_analyze_performance(backtest.result[1]))
    /\ UNCHANGED <<portfolio, strategies, opened, closed, before, call, nops, config,
                   scan, trade_date, bought_on,
                   cache, monitor, usecase>>

BacktestNext ==
    \/ \E start_date \in 0..6, span \in -1..MaxSpan :
          RunBacktest(start_date, start_date + span)
    \/ \E draws \in ExitDraws : ProcessTradingDay(draws)
    \/ SkipDay
    \/ FinishBacktest

BacktestSpec == Init /\ [][BacktestNext]_vars

-----------------------------------------------------------------------------
(* application/use_cases/scan_market_use_case.py: ScanMarketUseCase *)

\* how many members of the sorted list come before a new one: an equal
\* confidence no longer counts
insert_position_unstable(sorted, signal) ==
    Cardinality({k \in 1..Len(sorted) : Lt(signal.confidence, sorted[k].confidence)})

\* sorted(signals, key=lambda s: s.confidence, reverse=True) is stable: a
\* signal goes behind the earlier signals of the same or a higher confidence
insert_position(sorted, signal) ==
    Cardinality({k \in 1..Len(sorted) : Leq(signal.confidence, sorted[k].confidence)})

placed(sorted, signal, n) ==
    SubSeq(sorted, 1, n) \o <<signal>> \o SubSeq(sorted, n + 1, Len(sorted))

inserted(sorted, signal) == placed(sorted, signal, insert_position(sorted, signal))

RECURSIVE sorted_signals(_, _)
sorted_signals(signals, k) ==
    IF k = 0 THEN <<>>
    ELSE inserted(sorted_signals(signals, k - 1), signals[k])

\* key = f"{signal.symbol}_{signal.action.value}"
signal_key(signal) == <<signal.symbol, signal.action>>

\* `if key not in unique_signals: unique_signals[key] = signal`
kept_unique(unique, signal) ==
    IF \E j \in 1..Len(unique) : signal_key(unique[j]) = signal_key(signal)
    THEN unique
    ELSE Append(unique, signal)

RECURSIVE unique_signals(_, _)
unique_signals(sorted, k) ==
    IF k = 0 THEN <<>>
    ELSE kept_unique(unique_signals(sorted, k - 1), sorted[k])

\* ScanMarketUseCase._process_signals
_process_signals(signals) ==
    unique_signals(sorted_signals(signals, Len(signals)), Len(signals))

\* ScanMarketUseCase.execute, given what analyzer.scan_market() did:
\* scanned = [raised, returned]
execute(scanned) ==
    IF scanned.raised # <<>> THEN <<>> ELSE _process_signals(scanned.returned)

-----------------------------------------------------------------------------
(* The calls of ScanMarketUseCase.execute *)

MaxSignals == 3

\* the signals a scan can hand to the use case
ScannedKeys == {<<"AAA", "BUY">>, <<"AAA", "SELL">>, <<"BBB", "BUY">>}

ScannedSignals ==
    {[symbol |-> key[1], sector |-> "BK0917", action |-> key[2],
      confidence |-> confidence, price |-> price, position_size_pct |-> Num(0)] :
        key \in ScannedKeys, confidence \in {Num(80), Num(90)},
        price \in {Num(10), Num(12)}}

ScannedLists == UNION {[1..n -> ScannedSignals] : n \in 0..MaxSignals}

Executed(scanned, result) ==
    call' = [NoCall EXCEPT !.op = "execute", !.data = scanned.returned,
                          !.raised = scanned.raised, !.ret = result]

\* ScanMarketUseCase.execute
Execute(scanned) ==
    /\ call.op = "none"
    /\ Executed(scanned, execute(scanned))
    /\ UNCHANGED <<portfolio, strategies, opened, closed, before, nops, config, scan,
                   trade_date, bought_on, backtest,
                   cache, monitor, usecase>>

UseCaseNext ==
    /\ call.op = "none"
    /\ \/ \E signals \in ScannedLists :
             Execute([raised |-> <<>>, returned |-> signals])
       \/ Execute([raised |-> <<"Exception">>, returned |-> <<>>])

UseCaseSpec == Init /\ [][UseCaseNext]_vars

-----------------------------------------------------------------------------
(* legacy/strategy.py: the calls of the methods wrapped by cached_api_call *)

MaxClock == 1

\* the clock is read in steps of the shorter ttl
ClockStep == 300

\* func(*args, **kwargs): what the wrapped method fetches for a request
func(request) == [fetched_for |-> request]

\* `cache_key in _cache_store` and `time.time() - timestamp < ttl`
fresh(store, request, now) ==
    /\ store[cache_key(request)] # <<>>
    /\ now - store[cache_key(request)][1].timestamp < ttl(request)

\* a worker enters wrapper(*args, **kwargs)
CallCached(t, request) ==
    /\ cache.pc[t] \in {"idle", "returned"}
    /\ cache' = [cache EXCEPT !.pc[t] = "check", !.request[t] = <<request>>,
                              !.result[t] = <<>>, !.returned[t] = <<>>,
                              !.hit[t] = FALSE]
    /\ UNCHANGED <<portfolio, strategies, opened, closed, before, call, nops, config,
                   scan, trade_date, bought_on, backtest, monitor, usecase>>

\* the first `with _cache_lock:` block
CheckCache(t) ==
    /\ cache.pc[t] = "check"
    /\ cache' =
         IF fresh(cache.store, cache.request[t][1], cache.now)
         THEN [cache EXCEPT
                 !.pc[t] = "returned", !.hit[t] = TRUE,
                 !.returned[t] = <<cache.store[cache_key(cache.request[t][1])][1].data>>]
         ELSE [cache EXCEPT !.pc[t] = "miss"]
    /\ UNCHANGED <<portfolio, strategies, opened, closed, before, call, nops, config,
                   scan, trade_date, bought_on, backtest, monitor, usecase>>

\* result = func(*args, **kwargs), outside the lock
FetchData(t) ==
    /\ cache.pc[t] = "miss"
    /\ cache' = [cache EXCEPT !.pc[t] = "fetched",
                              !.result[t] = <<func(cache.request[t][1])>>]
    /\ UNCHANGED <<portfolio, strategies, opened, closed, before, call, nops, config,
                   scan, trade_date, bought_on, backtest, monitor, usecase>>

\* the second `with _cache_lock:` block and `return result`
StoreResult(t) ==
    /\ cache.pc[t] = "fetched"
    /\ cache' = [cache EXCEPT
                   !.pc[t] = "returned", !.returned[t] = cache.result[t],
                   !.store[cache_key(cache.request[t][1])] =
                       <<[data |-> cache.result[t][1], timestamp |-> cache.now]>>]
    /\ UNCHANGED <<portfolio, strategies, opened, closed, before, call, nops, config,
                   scan, trade_date, bought_on, backtest, monitor, usecase>>

\* time.time() moves on
Tick ==
    /\ cache.now < MaxClock * ClockStep
    /\ cache' = [cache EXCEPT !.now = @ + ClockStep]
    /\ UNCHANGED <<portfolio, strategies, opened, closed, before, call, nops, config,
                   scan, trade_date, bought_on, backtest, monitor, usecase>>

CacheNext ==
    \/ \E t \in Workers, request \in Requests : CallCached(t, request)
    \/ \E t \in Workers : CheckCache(t)
    \/ \E t \in Workers : FetchData(t)
    \/ \E t \in Workers : StoreResult(t)
    \/ Tick

CacheSpec == Init /\ [][CacheNext]_vars

-----------------------------------------------------------------------------
(* legacy/bull_monitor_service.py: BullMarketMonitorService *)

Alive(t) == monitor.loops[t] \in {"test", "body", "sleep"}

Created == {t \in LoopIds : monitor.loops[t] # "unborn"}

\* start_monitoring: returns at once when running is set, else sets it and
\* starts a new thread on _monitor_loop
StartMonitoring ==
    /\ ~monitor.running
    /\ Cardinality(Created) < MaxThreads
    /\ monitor' = [monitor EXCEPT !.running = TRUE,
                                  !.thread = Cardinality(Created) + 1,
                                  !.loops[Cardinality(Created) + 1] = "test"]
    /\ UNCHANGED <<portfolio, strategies, opened, closed, before, call, nops, config,
                   scan, trade_date, bought_on, backtest, cache, usecase>>

\* stop_monitoring: returns at once when running is not set, else clears it;
\* thread.join(timeout=10) returns when the loop has ended or after 10 s,
\* whichever comes first, and changes nothing
StopMonitoring ==
    /\ monitor.running
    /\ monitor' = [monitor EXCEPT !.running = FALSE]
    /\ UNCHANGED <<portfolio, strategies, opened, closed, before, call, nops, config,
                   scan, trade_date, bought_on, backtest, cache, usecase>>

\* a loop that never reads the flag: `while True`
TestRunning_forever(t) ==
    /\ monitor.loops[t] = "test"
    /\ monitor' = [monitor EXCEPT !.loops[t] = "body"]
    /\ UNCHANGED <<portfolio, strategies, opened, closed, before, call, nops, config,
                   scan, trade_date, bought_on, backtest, cache, usecase>>

\* `while self.running:` in _monitor_loop
TestRunning(t) ==
    /\ monitor.loops[t] = "test"
    /\ monitor' = [monitor EXCEPT !.loops[t] = IF monitor.running THEN "body" ELSE "ended"]
    /\ UNCHANGED <<portfolio, strategies, opened, closed, before, call, nops, config,
                   scan, trade_date, bought_on, backtest, cache, usecase>>

\* outside trading hours the iteration only sleeps and continues
WaitForTradingTime(t) ==
    /\ monitor.loops[t] = "body"
    /\ monitor' = [monitor EXCEPT !.loops[t] = "sleep"]
    /\ UNCHANGED <<portfolio, strategies, opened, closed, before, call, nops, config,
                   scan, trade_date, bought_on, backtest, cache, usecase>>

\* self._execute_scan(), which catches its own exceptions, then time.sleep
ExecuteScan(t) ==
    /\ monitor.loops[t] = "body"
    /\ monitor' = [monitor EXCEPT !.loops[t] = "sleep", !.last_scan_by = t]
    /\ UNCHANGED <<portfolio, strategies, opened, closed, before, call, nops, config,
                   scan, trade_date, bought_on, backtest, cache, usecase>>

\* time.sleep returns
WakeUp(t) ==
    /\ monitor.loops[t] = "sleep"
    /\ monitor' = [monitor EXCEPT !.loops[t] = "test"]
    /\ UNCHANGED <<portfolio, strategies, opened, closed, before, call, nops, config,
                   scan, trade_date, bought_on, backtest, cache, usecase>>

\* the steps of the thread running _monitor_loop
LoopStep(t) ==
    \/ TestRunning(t)
    \/ WaitForTradingTime(t)
    \/ ExecuteScan(t)
    \/ WakeUp(t)

MonitorNext ==
    \/ StartMonitoring
    \/ StopMonitoring
    \/ \E t \in LoopIds : TestRunning(t)
    \/ \E t \in LoopIds : WaitForTradingTime(t)
    \/ \E t \in LoopIds : ExecuteScan(t)
    \/ \E t \in LoopIds : WakeUp(t)

MonitorSpec == Init /\ [][MonitorNext]_vars

\* a started thread is scheduled again and again, time.sleep returns and
\* _execute_scan comes back: every loop thread keeps taking its steps
MonitorFairSpec ==
    Init /\ [][MonitorNext]_vars /\ \A t \in LoopIds : WF_vars(LoopStep(t))

-----------------------------------------------------------------------------
(* backtesting.py: PerformanceAnalyzer.calculate_risk_metrics *)

\* closed_trades = [t for t in trade_records if t.action in [SignalAction.SELL]]
closed_trades(trade_records) ==
    SelectSeq(trade_records, LAMBDA t : t.action \in {"SELL"})

\* one turn of the loop over closed_trades; state = [current_losses,
\* max_consecutive_losses]
counted(state, trade) ==
    IF trade.profit_loss < 0
    THEN [current_losses |-> state.current_losses + 1,
          max_consecutive_losses |->
              IF state.current_losses + 1 > state.max_consecutive_losses
              THEN state.current_losses + 1
              ELSE state.max_consecutive_losses]
    ELSE [state EXCEPT !.current_losses = 0]

RECURSIVE loss_runs(_, _)
loss_runs(trades, k) ==
    IF k = 0 THEN [current_losses |-> 0, max_consecutive_losses |-> 0]
    ELSE counted(loss_runs(trades, k - 1), trades[k])

\* RiskMetrics.max_consecutive_losses as calculate_risk_metrics returns it:
\* RiskMetrics() with fewer than two capital values
max_consecutive_losses(trade_records, capital_values) ==
    IF Len(capital_values) < 2 THEN 0
    ELSE loss_runs(closed_trades(trade_records),
                   Len(closed_trades(trade_records))).max_consecutive_losses

MaxTrades == 3

\* TradeRecord: action and profit_loss
TradeRecords ==
    [action : {"BUY", "SELL", "STOP_LOSS", "TAKE_PROFIT"}, profit_loss : {-10, 0, 10}]

TradeLists == UNION {[1..n -> TradeRecords] : n \in 0..MaxTrades}

\* the daily capital values handed over: none, one or two
CapitalValues == {<<>>, <<DefaultCash>>, <<DefaultCash, DefaultCash - 10>>}

CalculateRiskMetrics(trade_records, capital_values) ==
    /\ call' = [NoCall EXCEPT
                  !.op = "calculate_risk_metrics",
                  !.data = <<trade_records, capital_values>>,
                  !.ret = <<max_consecutive_losses(trade_records, capital_values)>>]
    /\ UNCHANGED <<portfolio, strategies, opened, closed, before, nops, config, scan,
                   trade_date, bought_on, backtest, cache, monitor, usecase>>

RiskNext ==
    /\ call.op = "none"
    /\ \E trade_records \in TradeLists, capital_values \in CapitalValues :
          CalculateRiskMetrics(trade_records, capital_values)

RiskSpec == Init /\ [][RiskNext]_vars

-----------------------------------------------------------------------------
(* scan_market_use_case.py: the calls of execute_with_options on one analyzer *)

\* the sectors argument: None (<<>>) or a list
SectorOptions == {<<>>, <<<<"BK0480">>>>}

\* the confidence_threshold argument: None (<<>>) or a number
ThresholdOptions == {<<>>, <<Num(0)>>, <<Num(90)>>, <<Num(150)>>}

\* `if sectors or confidence_threshold is not None`
wants_temp_config(sectors, threshold) ==
    (sectors # <<>> /\ sectors[1] # <<>>) \/ threshold # <<>>

\* temp_config = AnalysisConfig(sectors=sectors or original_config.sectors,
\* confidence_threshold=confidence_threshold or
\* original_config.confidence_threshold, ...): [raised, config]
temp_config(original_config, sectors, threshold) ==
    AnalysisConfig(
        IF sectors # <<>> /\ sectors[1] # <<>> THEN sectors[1] ELSE original_config.sectors,
        IF threshold # <<>> /\ threshold[1] # Num(0)
        THEN threshold[1]
        ELSE original_config.confidence_threshold,
        original_config.max_position_size)

\* the new object of caller t
made(t, cfg) ==
    [made_by |-> t, sectors |-> cfg.sectors,
     confidence_threshold |-> cfg.confidence_threshold,
     max_position_size |-> cfg.max_position_size]

\* `self.analyzer.config = temp_config`, unless the constructor raised
installed(t, temp) ==
    IF temp.raised # <<>>
    THEN [usecase EXCEPT !.pc[t] = "finally", !.raised[t] = temp.raised]
    ELSE [usecase EXCEPT !.pc[t] = "execute", !.config = made(t, temp.config[1])]

\* `original_config = self.analyzer.config`
EnterWithOptions(t, sectors, threshold) ==
    /\ usecase.pc[t] \in {"idle", "returned"}
    /\ usecase' = [usecase EXCEPT
                     !.pc[t] = "try", !.sectors[t] = sectors, !.threshold[t] = threshold,
                     !.original_config[t] = <<usecase.config>>,
                     !.scanned_with[t] = <<>>, !.raised[t] = <<>>]
    /\ UNCHANGED <<portfolio, strategies, opened, closed, before, call, nops, config,
                   scan, trade_date, bought_on, backtest, cache, monitor>>

\* the body of the try up to `return self.execute()`
InstallTempConfig(t) ==
    /\ usecase.pc[t] = "try"
    /\ usecase' =
         IF wants_temp_config(usecase.sectors[t], usecase.threshold[t])
         THEN installed(t, temp_config(usecase.original_config[t][1],
                                       usecase.sectors[t], usecase.threshold[t]))
         ELSE [usecase EXCEPT !.pc[t] = "execute"]
    /\ UNCHANGED <<portfolio, strategies, opened, closed, before, call, nops, config,
                   scan, trade_date, bought_on, backtest, cache, monitor>>

\* self.execute(): scan_market reads self.config of the analyzer; execute
\* catches what the scan raises
RunExecute(t) ==
    /\ usecase.pc[t] = "execute"
    /\ usecase' = [usecase EXCEPT !.pc[t] = "finally",
                                  !.scanned_with[t] = <<usecase.config>>]
    /\ UNCHANGED <<portfolio, strategies, opened, closed, before, call, nops, config,
                   scan, trade_date, bought_on, backtest, cache, monitor>>

\* finally: `self.analyzer.config = original_config`
RestoreConfig(t) ==
    /\ usecase.pc[t] = "finally"
    /\ usecase' = [usecase EXCEPT !.pc[t] = "returned",
                                  !.config = usecase.original_config[t][1]]
    /\ UNCHANGED <<portfolio, strategies, opened, closed, before, call, nops, config,
                   scan, trade_date, bought_on, backtest, cache, monitor>>

OptionsNext ==
    \/ \E t \in Callers, sectors \in SectorOptions, threshold \in ThresholdOptions :
          EnterWithOptions(t, sectors, threshold)
    \/ \E t \in Callers : InstallTempConfig(t)
    \/ \E t \in Callers : RunExecute(t)
    \/ \E t \in Callers : RestoreConfig(t)

OptionsSpec == Init /\ [][OptionsNext]_vars

-----------------------------------------------------------------------------
(* The construction of AnalysisConfig objects *)

ThresholdInputs ==
    {Num(-5), Num(0), Frac(1, 2), Num(30), Frac(99, 2), Num(50), Num(80), Num(100),
     Frac(201, 2), Num(150)}

PositionSizeInputs ==
    {Frac(-1, 10), Num(0), Frac(1, 20), Frac(1, 10), Num(1), Frac(3, 2)}

Constructed(op, threshold, size, r) ==
    /\ call' = [NoCall EXCEPT !.op = op, !.data = <<threshold, size>>,
                              !.raised = r.raised, !.ret = r.config]
    /\ config' = IF r.raised = <<>> THEN r.config[1] ELSE config

\* config = AnalysisConfig(confidence_threshold=..., max_position_size=...);
\* when the constructor raises, the name keeps the object it had
ConstructConfig(threshold, size) ==
    /\ nops < MaxOps
    /\ nops' = nops + 1
    /\ Constructed("AnalysisConfig", threshold, size,
                   AnalysisConfig(DefaultAnalysisConfig.sectors, threshold, size))
    /\ UNCHANGED <<portfolio, strategies, opened, closed, before, scan, trade_date,
                   bought_on, backtest,
                   cache, monitor, usecase>>

\* config = config.with_updated_threshold(threshold)
UpdateThreshold(threshold) ==
    /\ nops < MaxOps
    /\ nops' = nops + 1
    /\ Constructed("with_updated_threshold", threshold, config.max_position_size,
                   with_updated_threshold(config, threshold))
    /\ UNCHANGED <<portfolio, strategies, opened, closed, before, scan, trade_date,
                   bought_on, backtest,
                   cache, monitor, usecase>>

ConfigNext ==
    \/ \E threshold \in ThresholdInputs, size \in PositionSizeInputs :
          ConstructConfig(threshold, size)
    \/ \E threshold \in ThresholdInputs : UpdateThreshold(threshold)

ConfigSpec == Init /\ [][ConfigNext]_vars

-----------------------------------------------------------------------------
(* The scans of one BullMarketAnalyzer *)

MaxStocks == 2

\* what the provider reports of one stock, with the clock read while it is
\* analysed (minutes since midnight)
Observation(symbol, price, change_pct, now) ==
    [symbol |-> symbol, sector |-> "BK0917", price |-> price, change_pct |-> change_pct,
     volume |-> 1000, avg_volume |-> <<1000>>, now |-> now,
     sentiment_score |-> Num(50)]

Observations ==
    {Observation("AAA", Num(10), Frac(-5, 2), HM(9, 20)),
     Observation("BBB", Num(12), Num(-3), HM(9, 30)),
     Observation("AAA", Num(10), Frac(-5, 2), HM(14, 45)),
     Observation("CCC", Num(10), Frac(1, 2), HM(10, 0))}

SectorData == UNION {[1..n -> Observations] : n \in 0..MaxStocks}

Responses ==
    {[raised |-> TRUE, stocks |-> <<>>]}
        \cup {[raised |-> FALSE, stocks |-> d] : d \in SectorData}

SectorLists == {<<"BK0917">>, <<"BK0917", "BK0480">>}
Thresholds == {Num(80), Num(85), Num(90)}

NoProvider == [configured |-> FALSE, responses |-> <<>>]

ScanInit ==
    /\ portfolio = Portfolio
    /\ strategies \in StrategyLists
    /\ opened = [s \in Symbols |-> 0]
    /\ closed = [s \in Symbols |-> 0]
    /\ before = Portfolio
    /\ call = NoCall
    /\ nops = 0
    /\ config \in {[DefaultAnalysisConfig EXCEPT !.sectors = sl,
                                                 !.confidence_threshold = t] :
                      sl \in SectorLists, t \in Thresholds}
    /\ scan = NoScan
    /\ trade_date = 0
    /\ bought_on = [s \in Symbols |-> -1]
    /\ backtest = NoBacktest
    /\ cache = NoCache
    /\ monitor = NoMonitor
    /\ usecase = NoUseCase

\* scan_market keeps nothing from one call to the next, so every scan is a
\* first scan
Scanned(provider, notifier, r) ==
    [done |-> TRUE, provider |-> provider, notifier |-> notifier,
     raised |-> r.raised, returned |-> r.returned, notified |-> r.notified]

ScanMarket(provider, notifier) ==
    /\ ~scan.done
    /\ scan' = Scanned(provider, notifier,
                       scan_market(config, strategies, provider, notifier))
    /\ UNCHANGED <<portfolio, strategies, opened, closed, before, call, nops, config, trade_date, bought_on, backtest,
                   cache, monitor, usecase>>

Notifiers == {"absent", "ok", "raises"}

ScanNext ==
    /\ ~scan.done
    /\ \/ \E responses \in [1..Len(config.sectors) -> Responses], notifier \in Notifiers :
             ScanMarket([configured |-> TRUE, responses |-> responses], notifier)
       \/ \E notifier \in Notifiers : ScanMarket(NoProvider, notifier)

ScanSpec == ScanInit /\ [][ScanNext]_vars

-----------------------------------------------------------------------------
(* Single analyses by one BullMarketAnalyzer *)

\* a MarketData with the clock read while it is analysed (minutes since
\* midnight) and the sentiment score drawn for it
Snapshot(symbol, price, change_pct, volume, avg, sentiment_score, now) ==
    [symbol |-> symbol, sector |-> "BK0917", price |-> price, change_pct |-> change_pct,
     volume |-> volume, avg_volume |-> avg, now |-> now,
     sentiment_score |-> sentiment_score]

Minutes == 0..(HM(24, 0) - 1)

Snapshots ==
    UNION {{Snapshot("AAA", Num(10), Frac(-5, 2), 1000, <<1000>>, Num(60), t),
            Snapshot("AAA", Num(10), Frac(-5, 2), 4000, <<1000>>, Num(60), t),
            Snapshot("BBB", Num(12), Num(6), 3000, <<1000>>, Num(50), t),
            Snapshot("BBB", Num(12), Num(2), 1000, <<1000>>, Num(90), t),
            Snapshot("CCC", Num(10), Frac(1, 2), 1000, <<1000>>, Num(50), t),
            Snapshot("CCC", Num(10), Frac(1, 2), 1000, <<0>>, Num(50), t)} :
           t \in Minutes}

AnalysisInit ==
    /\ portfolio = Portfolio
    /\ strategies \in StrategyLists
    /\ opened = [s \in Symbols |-> 0]
    /\ closed = [s \in Symbols |-> 0]
    /\ before = Portfolio
    /\ call = NoCall
    /\ nops = 0
    /\ config = DefaultAnalysisConfig
    /\ scan = NoScan
    /\ trade_date = 0
    /\ bought_on = [s \in Symbols |-> -1]
    /\ backtest = NoBacktest
    /\ cache = NoCache
    /\ monitor = NoMonitor
    /\ usecase = NoUseCase

Analyzed(market_data, r) ==
    [NoCall EXCEPT !.op = "analyze_single_stock", !.data = <<market_data>>,
                   !.raised = r.raised, !.got = r.signal]

\* analyze_single_stock keeps nothing from one call to the next
AnalyzeSingleStock(market_data) ==
    /\ call.op = "none"
    /\ call' = Analyzed(market_data,
                        analyze_single_stock(strategies, market_data, config))
    /\ UNCHANGED <<portfolio, strategies, opened, closed, before, nops, config, scan, trade_date, bought_on, backtest,
                   cache, monitor, usecase>>

\* BaseStrategy._get_time_slot on a clock reading
GetTimeSlot(current_t) ==
    /\ call.op = "none"
    /\ call' = [NoCall EXCEPT !.op = "_get_time_slot", !.data = <<current_t>>,
                              !.ret = <<_get_time_slot(current_t)>>]
    /\ UNCHANGED <<portfolio, strategies, opened, closed, before, nops, config, scan, trade_date, bought_on, backtest,
                   cache, monitor, usecase>>

AnalyzedBy(strategy, market_data, r) ==
    [NoCall EXCEPT !.op = "analyze_market_data", !.symbol = strategy,
                   !.data = <<market_data>>, !.raised = r.raised, !.got = r.signal]

\* one strategy's analyze_market_data on a snapshot
AnalyzeMarketData(strategy, market_data) ==
    /\ call.op = "none"
    /\ call' = AnalyzedBy(strategy, market_data,
                          analyze_market_data(strategy, market_data, config))
    /\ UNCHANGED <<portfolio, strategies, opened, closed, before, nops, config, scan, trade_date, bought_on, backtest,
                   cache, monitor, usecase>>

AnalysisNext ==
    /\ call.op = "none"
    /\ ~scan.done
    /\ \/ \E market_data \in Snapshots : AnalyzeSingleStock(market_data)
       \/ \E market_data \in Snapshots : AnalyzeMarketData("t_plus_one", market_data)
       \/ \E current_t \in Minutes : GetTimeSlot(current_t)
       \/ \E stocks \in SectorData :
             ScanMarket([configured |-> TRUE,
                         responses |-> <<[raised |-> FALSE, stocks |-> stocks]>>],
                        "absent")

AnalysisSpec == AnalysisInit /\ [][AnalysisNext]_vars

-----------------------------------------------------------------------------
(* Properties of the Portfolio and of the backtest's trade execution *)

\* cost of opening `quantity` at `price` with `commission`
OpenCost(quantity, price, commission) == Add(Scale(quantity, price), commission)

\* C1: after any sequence of opens and closes from the default cash of
\* 100000, Portfolio.cash is never negative.
C1_CashNeverNegative == Leq(Num(0), portfolio.cash)

\* opens and a close have succeeded, the last open costing more than 1000
C1_Witness ==
    /\ call.op = "remove_position"
    /\ call.raised = <<>>
    /\ \E s \in Symbols : opened[s] >= 150
    /\ Leq(Num(0), portfolio.cash)

\* C2: for every symbol the held quantity (0 without an entry) is the sum of
\* the opened quantities minus the sum of the closed quantities, and is never
\* negative.
C2_HeldIsOpensMinusCloses ==
    \A s \in Symbols :
        /\ Held(portfolio, s) = opened[s] - closed[s]
        /\ Held(portfolio, s) >= 0

\* a symbol opened more than once and partly closed
C2_Witness ==
    \E s \in Symbols :
        /\ opened[s] >= 150
        /\ closed[s] > 0
        /\ Held(portfolio, s) > 0
        /\ Held(portfolio, s) = opened[s] - closed[s]

\* C3: an open of q at p with commission c decreases cash by exactly q*p + c,
\* on a direct add_position call and on a buy made by _execute_trade.
C3_OpenDebitsCash ==
    /\ (call.op = "add_position" /\ call.raised = <<>>) =>
          portfolio.cash =
              Sub(before.cash, OpenCost(call.quantity, call.price, call.commission))
    /\ (call.op = "_execute_trade" /\ call.trade # <<>>) =>
          portfolio.cash =
              Sub(before.cash, OpenCost(call.trade[1].quantity, call.trade[1].price,
                                        call.trade[1].commission))

\* C4: an open whose cost q*p + c exceeds the cash fails, and leaves cash and
\* every position as they were.
C4_InsufficientFundsRejected ==
    (/\ call.op = "add_position"
     /\ Lt(before.cash, OpenCost(call.quantity, call.price, call.commission)))
    => (call.raised # <<>> /\ portfolio = before)

\* C5: closing a symbol that is not held, or more than is held, raises an
\* error and leaves cash and every position (quantity, average cost, total
\* cost) as they were.
C5_FailedCloseChangesNothing ==
    (/\ call.op = "remove_position"
     /\ \/ call.symbol \notin DOMAIN before.positions
        \/ call.quantity > before.positions[call.symbol].quantity)
    => (call.raised # <<>> /\ call.ret = <<>> /\ portfolio = before)

\* a close of more than the held quantity of a held symbol was refused
C5_Witness ==
    /\ call.op = "remove_position"
    /\ call.symbol \in DOMAIN before.positions
    /\ call.quantity > before.positions[call.symbol].quantity
    /\ call.raised # <<>>
    /\ portfolio = before

\* C6: a successful close of q at p with commission c returns
\* (q*p - c) - q*avg_cost, reduces the held quantity by q, keeps avg_cost on a
\* partial close, and removes the entry exactly when nothing remains.
C6_CloseRealizesPnl ==
    (call.op = "remove_position" /\ call.raised = <<>>) =>
        LET position == before.positions[call.symbol]
            remaining == position.quantity - call.quantity
            revenue == Sub(Scale(call.quantity, call.price), call.commission)
        IN  /\ call.quantity <= position.quantity
            /\ call.ret = <<Sub(revenue, Scale(call.quantity, position.avg_cost))>>
            /\ Held(portfolio, call.symbol) = remaining
            /\ (call.symbol \notin DOMAIN portfolio.positions) <=> (remaining = 0)
            /\ remaining > 0 =>
                  portfolio.positions[call.symbol].avg_cost = position.avg_cost

\* a partial close of a position that was added to (avg_cost not the price)
C6_Witness ==
    /\ call.op = "remove_position"
    /\ call.raised = <<>>
    /\ call.symbol \in DOMAIN portfolio.positions
    /\ before.positions[call.symbol].avg_cost.n # 0
    /\ portfolio.positions[call.symbol].quantity > 0

\* C7: a new position's avg_cost includes the buy commission, (q*p + c)/q:
\* 100 shares at 10.0 with commission 3.0 give avg_cost 10.03, and closing
\* them at 12.0 with commission 4.8 realizes 192.2 and removes the position.
C7_AvgCostIncludesCommission ==
    /\ (/\ call.op = "add_position"
        /\ call.raised = <<>>
        /\ call.symbol \notin DOMAIN before.positions)
       => portfolio.positions[call.symbol].avg_cost =
              DivInt(OpenCost(call.quantity, call.price, call.commission), call.quantity)
    /\ (/\ call.op = "remove_position"
        /\ call.symbol = "AAA"
        /\ call.quantity = 100
        /\ call.price = Num(12)
        /\ call.commission = Frac(24, 5)
        /\ "AAA" \in DOMAIN before.positions
        /\ before.positions["AAA"].quantity = 100
        /\ before.positions["AAA"].total_cost = Num(1003))
       => (call.ret = <<Frac(961, 5)>> /\ "AAA" \notin DOMAIN portfolio.positions)

\* the order quantity of the signal of the last _execute_trade call
SignalQuantity == Floor(Div(Mul(before.cash, call.signal[1].position_size_pct),
                            call.signal[1].price))

\* C8: a signal whose order quantity floor(cash * position_size_pct / price)
\* is below 100 shares is never executed: no trade record, portfolio unchanged.
C8_SmallOrderNotExecuted ==
    (call.op = "_execute_trade" /\ SignalQuantity < 100) =>
        (call.trade = <<>> /\ portfolio = before)

\* a strategy accepted the signal, yet its quantity was below 100
C8_Witness ==
    /\ call.op = "_execute_trade"
    /\ call.entered
    /\ SignalQuantity < 100
    /\ call.trade = <<>>
    /\ portfolio = before

\* C9: every executed buy has quantity floor(cash * position_size_pct / price)
\* rounded down to a 100-share lot: a positive multiple of 100.
C9_QuantityIsWholeLots ==
    (call.op = "_execute_trade" /\ call.trade # <<>>) =>
        /\ call.trade[1].quantity = (SignalQuantity \div 100) * 100
        /\ call.trade[1].quantity > 0
        /\ call.trade[1].quantity % 100 = 0

-----------------------------------------------------------------------------
(* Properties of the market scan *)

\* C10: every signal returned by scan_market, and every signal passed to the
\* notifier, has confidence >= config.confidence_threshold.
C10_ThresholdHonored ==
    scan.done =>
        /\ \A k \in 1..Len(scan.returned) :
               Leq(config.confidence_threshold, scan.returned[k].confidence)
        /\ \A k \in 1..Len(scan.notified) :
               Leq(config.confidence_threshold, scan.notified[k].confidence)

\* a scan over two sectors returned and notified signals of both
C10_Witness ==
    /\ scan.done
    /\ scan.raised = <<>>
    /\ Len(scan.returned) >= 2
    /\ scan.notified = scan.returned
    /\ \A k \in 1..Len(scan.returned) :
           Leq(config.confidence_threshold, scan.returned[k].confidence)

-----------------------------------------------------------------------------
(* Properties of the signal engine *)

\* what each strategy of the list answers for the snapshot
StrategyOutcomes(strats, market_data, cfg) ==
    [k \in 1..Len(strats) |-> analyze_market_data(strats[k], market_data, cfg)]

\* how many members of the sequence are about the symbol
Occurrences(seq, symbol) == Cardinality({k \in 1..Len(seq) : seq[k].symbol = symbol})

FirstMatch(outs, raised, got) ==
    /\ got # <<>> =>
           \E k \in DOMAIN outs :
               /\ outs[k].signal = got
               /\ \A j \in 1..(k - 1) : outs[j] = Nothing
    /\ (raised = <<>> /\ got = <<>>) => \A k \in DOMAIN outs : outs[k] = Nothing
    /\ \A k \in DOMAIN outs :
           (outs[k].signal # <<>> /\ \A j \in 1..(k - 1) : outs[j] = Nothing)
               => got = outs[k].signal

\* C11: analyze_single_stock tries the strategies in list order and returns
\* the signal of the first one that returns a signal; it returns None only
\* when every strategy returns None; and a scan pass of a sector yields no
\* more signals for a symbol than the sector has snapshots of it.
C11_FirstMatchWins ==
    /\ call.op = "analyze_single_stock" =>
           FirstMatch(StrategyOutcomes(strategies, call.data[1], config),
                      call.raised, call.got)
    /\ scan.done =>
           \A k \in 1..Len(scan.provider.responses) :
               \A j \in 1..Len(scan.provider.responses[k].stocks) :
                   Occurrences(scan.returned, scan.provider.responses[k].stocks[j].symbol)
                       <= Occurrences(scan.provider.responses[k].stocks,
                                      scan.provider.responses[k].stocks[j].symbol)

\* the T+1 strategy answered SELL before the pre-open ended, for a snapshot
\* on which the volume strategy, tried later, does not return None
C11_Witness ==
    /\ call.op = "analyze_single_stock"
    /\ call.got # <<>>
    /\ call.got[1].action = "SELL"
    /\ Len(strategies) = 4
    /\ Volume_analyze_market_data(call.data[1], config) # Nothing

\* C12: a time of day t (in minutes) maps to the pre-open bucket for
\* 09:15 <= t < 09:30, the morning session for 09:30 <= t <= 11:30, the
\* afternoon session for 13:00 <= t <= 14:30, the closing session for
\* 14:30 < t <= 15:00, and non-trading otherwise.
C12_TimeSlotBoundaries ==
    call.op = "_get_time_slot" =>
        LET t == call.data[1]
        IN  call.ret[1] =
                IF HM(9, 15) <= t /\ t < HM(9, 30) THEN "early_morning"
                ELSE IF HM(9, 30) <= t /\ t <= HM(11, 30) THEN "morning_session"
                ELSE IF HM(13, 0) <= t /\ t <= HM(14, 30) THEN "afternoon_session"
                ELSE IF HM(14, 30) < t /\ t <= HM(15, 0) THEN "late_afternoon"
                ELSE "non_trading"

\* the closing-session bucket of the time of day t: 14:30 < t <= 15:00
InClosingSession(t) == HM(14, 30) < t /\ t <= HM(15, 0)

InPreOpen(t) == HM(9, 15) <= t /\ t < HM(9, 30)

\* C14: in the pre-open bucket the T+1 strategy returns None for a symbol
\* that is not held, whatever the percent change; it emits a signal only for
\* a held symbol, and that signal is a SELL.
C14_PreOpenOnlyExitsHeld ==
    (/\ call.op = "analyze_market_data"
     /\ call.symbol = "t_plus_one"
     /\ InPreOpen(call.data[1].now))
        => /\ Held(portfolio, call.data[1].symbol) = 0
                  => (call.raised = <<>> /\ call.got = <<>>)
           /\ call.got # <<>> => call.got[1].action = "SELL"

\* C15: for a snapshot with percent change below -2 and a positive price,
\* analysed in the closing-session bucket, the T+1 strategy returns a BUY
\* signal with 0 < confidence <= 95 (it neither raises nor returns None).
C15_ClosingSessionBuy ==
    (/\ call.op = "analyze_market_data"
     /\ call.symbol = "t_plus_one"
     /\ InClosingSession(call.data[1].now)
     /\ Lt(call.data[1].change_pct, Num(-2))
     /\ Lt(Num(0), call.data[1].price))
        => /\ call.raised = <<>>
           /\ call.got # <<>>
           /\ call.got[1].action = "BUY"
           /\ Lt(Num(0), call.got[1].confidence)
           /\ Leq(call.got[1].confidence, Num(95))

-----------------------------------------------------------------------------
(* Properties of the backtest *)

\* the Monday-to-Friday dates of [start_date, end_date], in date order
TradingDates(start_date, end_date) ==
    SelectSeq([k \in 1..(end_date - start_date + 1) |-> start_date + k - 1],
              LAMBDA date : weekday(date) < 5)

\* C16: when a backtest run finishes, result.daily_results holds exactly one
\* snapshot for each Monday-to-Friday date of [start_date, end_date], in date
\* order, and none for a weekend date.
C16_DailySnapshotPerTradingDay ==
    backtest.pc = "done" =>
        [k \in DOMAIN backtest.result[1].daily_results |->
            backtest.result[1].daily_results[k].date]
          = TradingDates(backtest.result[1].start_date, backtest.result[1].end_date)

\* C17: a backtest over 5 consecutive weekdays (Monday to Friday) without any
\* market snapshot runs to completion without raising and returns a
\* BacktestResult with total_signals = 0 and executed_trades = 0.
C17_EmptyBacktestCompletes ==
    (/\ backtest.pc = "done"
     /\ weekday(backtest.result[1].start_date) = 0
     /\ backtest.result[1].end_date = backtest.result[1].start_date + 4)
        => /\ backtest.raised = <<>>
           /\ backtest.returned # <<>>
           /\ backtest.returned[1].total_signals = 0
           /\ backtest.returned[1].executed_trades = 0

\* C19: a position opened on trading day N is never closed on day N: every
\* closing trade of a symbol is on a day strictly later than its buy.
C19_NoSameDayClose ==
    call.op = "_check_exit_conditions" =>
        \A r \in call.exits : bought_on[r.symbol] < trade_date

-----------------------------------------------------------------------------
(* Properties of the configuration *)

ConfigCall == call.op \in {"AnalysisConfig", "with_updated_threshold"}

\* the max position fraction lies in 0 to 1
SizeInRange(size) == Leq(Num(0), size) /\ Leq(size, Num(1))

\* C20 as claimed: constructing an AnalysisConfig (directly or through
\* with_updated_threshold) with a confidence threshold outside 50 to 100 or a
\* max position fraction outside 0 to 1 is rejected, and no config holds an
\* out-of-range value.
C20_RangeChecked ==
    /\ (/\ ConfigCall
        /\ \/ ~(Leq(Num(50), call.data[1]) /\ Leq(call.data[1], Num(100)))
           \/ ~SizeInRange(call.data[2]))
           => (call.raised # <<>> /\ call.ret = <<>>)
    /\ Leq(Num(50), config.confidence_threshold)
    /\ Leq(config.confidence_threshold, Num(100))
    /\ SizeInRange(config.max_position_size)

\* C20 amended: the same with the threshold range 0 (exclusive) to 100: a
\* threshold that is not in 0 < threshold <= 100, or a max position fraction
\* outside 0 to 1, is rejected, and no config holds such a value.
C20_RangeCheckedFromZero ==
    /\ (/\ ConfigCall
        /\ \/ ~(Lt(Num(0), call.data[1]) /\ Leq(call.data[1], Num(100)))
           \/ ~SizeInRange(call.data[2]))
           => (call.raised # <<>> /\ call.ret = <<>>)
    /\ Lt(Num(0), config.confidence_threshold)
    /\ Leq(config.confidence_threshold, Num(100))
    /\ SizeInRange(config.max_position_size)

\* with_updated_threshold was refused a threshold of 0 or less, or above
\* 100, on a config built with a threshold below 50
C20_Witness ==
    /\ call.op = "with_updated_threshold"
    /\ ~(Lt(Num(0), call.data[1]) /\ Leq(call.data[1], Num(100)))
    /\ call.raised = <<"ValueError">>
    /\ Lt(config.confidence_threshold, Num(50))

-----------------------------------------------------------------------------
(* Properties of the scan use case *)

\* the input positions whose signal survives: no signal of the same
\* (symbol, action) has a higher confidence, or the same one earlier
Surviving(signals) ==
    {i \in 1..Len(signals) :
        ~\E j \in 1..Len(signals) :
            /\ signal_key(signals[j]) = signal_key(signals[i])
            /\ \/ Lt(signals[i].confidence, signals[j].confidence)
               \/ (signals[j].confidence = signals[i].confidence /\ j < i)}

\* the place of the i-th input signal among the surviving ones: after those
\* of a higher confidence and those of the same confidence seen earlier
Place(signals, i) ==
    1 + Cardinality({j \in Surviving(signals) :
                        \/ Lt(signals[i].confidence, signals[j].confidence)
                        \/ (signals[j].confidence = signals[i].confidence /\ j < i)})

\* C21: the list execute returns is ordered by confidence descending, equal
\* confidences in first-seen order, and holds for each (symbol, action) only
\* the signal of the highest confidence.
C21_SortedFirstSeenUnique ==
    (call.op = "execute" /\ call.raised = <<>>) =>
        /\ Len(call.ret) = Cardinality(Surviving(call.data))
        /\ \A i \in Surviving(call.data) :
               call.ret[Place(call.data, i)] = call.data[i]

\* an input of three signals: two of equal confidence for different symbols
\* and a weaker duplicate of the first one's (symbol, action)
C21_Witness ==
    /\ call.op = "execute"
    /\ call.raised = <<>>
    /\ Len(call.data) = 3
    /\ Len(call.ret) = 2
    /\ call.ret[1].confidence = call.ret[2].confidence
    /\ call.ret[1].symbol # call.ret[2].symbol
    /\ call.ret[1] = call.data[2]
    /\ call.ret[2] = call.data[3]

-----------------------------------------------------------------------------
(* Properties of the response cache *)

\* the worker is past the check without a fresh entry and has not stored yet
Missed(t) == cache.pc[t] \in {"miss", "fetched"}

\* C22: two workers with the same request, hence the same cache key, never
\* both observe a miss for it: at most one of them is between the check and
\* the store.
C22_SingleFetchPerKey ==
    \A t1, t2 \in Workers :
        (t1 # t2 /\ Missed(t1) /\ Missed(t2)) => cache.request[t1] # cache.request[t2]

\* C23: a value returned from the cache for a request was fetched for the
\* same request type and the same parameters.
C23_CachedValueIsForRequest ==
    \A t \in Workers :
        (cache.pc[t] = "returned" /\ cache.hit[t]) =>
            cache.returned[t][1].fetched_for = cache.request[t][1]

-----------------------------------------------------------------------------
(* Properties of the monitor service *)

\* a loop thread passes the `while self.running` test into a new iteration
StartsIteration(t) == monitor.loops[t] = "test" /\ monitor'.loops[t] = "body"

\* C24: a loop starts an iteration only while the running flag is set, and
\* once the flag is cleared every live loop thread ends unless the flag is
\* set again.
C24_StoppedLoopEnds ==
    /\ [][\A t \in LoopIds : StartsIteration(t) => monitor.running]_vars
    /\ \A t \in LoopIds :
          (Alive(t) /\ ~monitor.running) ~> (~Alive(t) \/ monitor.running)

\* the first loop has scanned and has ended after stop_monitoring
C24_Witness ==
    /\ ~monitor.running
    /\ monitor.thread = 1
    /\ monitor.last_scan_by = 1
    /\ monitor.loops[1] = "ended"

\* C29: at most one monitor-loop thread of the service is alive at any time.
C29_AtMostOneLoop == Cardinality({t \in LoopIds : Alive(t)}) <= 1

-----------------------------------------------------------------------------
(* Properties of scan_market's error handling *)

\* the signals of a sector's stocks from the k-th on, a stock whose analysis
\* raises giving none
RECURSIVE IsolatedSectorSignals(_, _, _, _)
IsolatedSectorSignals(strats, sector_data, k, cfg) ==
    IF k > Len(sector_data) THEN <<>>
    ELSE analyze_single_stock(strats, sector_data[k], cfg).signal
         \o IsolatedSectorSignals(strats, sector_data, k + 1, cfg)

RECURSIVE IsolatedSignals(_, _, _, _)
IsolatedSignals(strats, responses, k, cfg) ==
    IF k > Len(cfg.sectors) THEN <<>>
    ELSE IsolatedSectorSignals(strats, responses[k].stocks, 1, cfg)
         \o IsolatedSignals(strats, responses, k + 1, cfg)

\* C25: when the analysis of one symbol raises during scan_market, the scan
\* still returns the signals of every other symbol, of the same sector and
\* of the later ones, that reach the threshold.
C25_FailureIsolatedToSymbol ==
    (scan.done /\ scan.provider.configured /\ scan.raised = <<>>) =>
        scan.returned =
            filtered_signals(IsolatedSignals(strategies, scan.provider.responses, 1, config),
                             config)

\* C26: when notify_signal raises, scan_market still returns all the
\* filtered signals and has offered each of them to the notifier.
C26_NotifierFailureTolerated ==
    (scan.done /\ scan.provider.configured /\ scan.notifier = "raises") =>
        /\ scan.raised = <<>>
        /\ scan.returned =
               filtered_signals(all_signals(strategies, scan.provider.responses, 1, config),
                                config)
        /\ scan.notified = scan.returned

-----------------------------------------------------------------------------
(* Properties of the risk metrics *)

\* TradeRecord.is_closed_trade
is_closed_trade(trade) == trade.action \in {"SELL", "STOP_LOSS", "TAKE_PROFIT"}

\* trades[i..j] are all losing trades
LossRun(trades, i, j) == \A k \in i..j : trades[k].profit_loss < 0

\* the length of the longest run of consecutive losing trades
LongestLossRun(trades) ==
    LET lengths == {j - i + 1 : i \in 1..Len(trades), j \in 1..Len(trades)}
        runs == {n \in lengths : \E i \in 1..(Len(trades) - n + 1) :
                                     LossRun(trades, i, i + n - 1)}
    IN  IF runs = {} THEN 0 ELSE CHOOSE n \in runs : \A m \in runs : m <= n

\* C27: max_consecutive_losses is the longest run of consecutive closed
\* trades (SELL, STOP_LOSS, TAKE_PROFIT) with a negative profit_loss, in list
\* order.
C27_LongestLossRun ==
    call.op = "calculate_risk_metrics" =>
        call.ret[1] = LongestLossRun(SelectSeq(call.data[1], is_closed_trade))

-----------------------------------------------------------------------------
(* Properties of the backtest's entries *)

\* C28: with the full strategy list, _execute_trade opens a position only
\* for a BUY signal.
C28_OnlyBuyOpens ==
    (call.op = "_execute_trade" /\ strategies = create_all_strategies
        /\ call.trade # <<>>) =>
        call.signal[1].action = "BUY"

-----------------------------------------------------------------------------
(* Properties of execute_with_options *)

\* C30: once every execute_with_options call has returned, analyzer.config
\* is the original config object, and no call's scan ran with the temporary
\* config of another call.
C30_ConfigRestored ==
    /\ (\A t \in Callers : usecase.pc[t] \in {"idle", "returned"}) =>
           usecase.config = OriginalConfig
    /\ \A t \in Callers :
           usecase.scanned_with[t] # <<>> =>
               usecase.scanned_with[t][1].made_by \in {0, t}

====
